---- MODULE Spec2Model ----
(***************************************************************************)
(* Model of the Fluke 985 IOC synchronization loop (fluke_985/ioc.py):     *)
(* the periodic update_hook, the status query and rebuild decision, the    *)
(* export download, the row diff against the (LastTimestamp, NumRecords)   *)
(* watermark and the per-row publish loop.                                 *)
(*                                                                         *)
(* Time is counted in microseconds, so that the two time constants of      *)
(* _find_new_rows (1e-6 s and 0.1 s) are both integers.                    *)
(***************************************************************************)
EXTENDS Integers, Sequences, FiniteSets, TLC

\* ------------------------------------------------------------------ bounds
MaxTime == 3        \* row timestamps are Margin * 1 .. Margin * MaxTime
MaxLen == 3         \* longest downloaded table
MaxTickLen == 2     \* longest table downloaded in the ticks of Spec
MaxRecords == 2     \* largest record count shown on the status page
MaxHtml == 3        \* longest status page, in pieces of text
MaxAlarm == 2       \* largest value of an alarm column
MaxServed == 4      \* most requests served by the simulator
MaxCalls == 3       \* most calls of decorated handlers
MaxDigit == 5       \* largest digit in a sample period text

\* ------------------------------------------------------- program constants
Epsilon == 1        \* 1e-6 s   (ioc.py:594)
Margin == 100000    \* 0.1 s    (ioc.py:599)
MaxLength == 40     \* max_length of the metadata channels (ioc.py:130)
SecondsPerHour == 3600      \* data.py:115
SecondsPerMinute == 60      \* data.py:115

\* ------------------------------------------------------------ input domains
TimeStamps == {Margin * k : k \in 1..MaxTime}

\* What np.isnan(row['Sample Units']) meets: a float NaN (empty column), or
\* a text such as 'CF', on which np.isnan raises TypeError.
UnitsKinds == {"nan", "text"}

Rows == [ts : TimeStamps, units : UnitsKinds]

IsNonDecreasing(s) == \A i \in 1..(Len(s) - 1) : s[i].ts <= s[i + 1].ts

\* The tables load_fluke_data_file can return: rows in file order, which the
\* device writes in chronological order (equal timestamps included).
Tables ==
    {s \in UNION {[1..n -> Rows] : n \in 0..MaxLen} : IsNonDecreasing(s)}

\* The tables the ticks of Spec download; the row diff is followed on the
\* longer tables in DiffSpec.
TickTables == {s \in Tables : Len(s) <= MaxTickLen}

States == {"new_data", "rebuilding", "download", "unknown"}

NoRecords == -1     \* the 'records' key is absent from state_info

StateInfos == [state : States, records : {NoRecords} \cup (0..MaxRecords)]

NoStateInfo == [state |-> "unknown", records |-> NoRecords]

VARIABLES
    last_timestamp,       \* LastTimestamp PV (autosaved)
    sync_records,         \* NumRecords PV
    available_records,    \* AvailableRecords PV
    server_state,         \* ServerState PV
    pc,                   \* position of update_hook
    state_info,           \* _update_server_state: the dict of this tick
    df,                   \* _download_and_update: the downloaded table
    items,                \* what _find_new_rows returned
    new_rows,             \* the list sorted(...) the for loop iterates
    i,                    \* index in new_rows of the current row
    posted,               \* rows _post_new_row was called with, this tick
    rebuild_sent,         \* comm.request_rebuild was called, this tick
    download_sent,        \* comm.get_data_file was called, this tick
    last_pc,              \* position the tick ended from
    tick_lt,              \* LastTimestamp when the tick began
    tick_nr,              \* NumRecords when the tick began
    in_flight,            \* calls of update_hook that have not returned
    alarms,               \* self.alarms: alarm group -> (status, severity)
    html,                 \* get_state_information: the page text
    post_row,             \* _post_new_row, summarize_alarms: the row
    field_i,              \* _post_new_row: index of the next field of row
    writes,               \* channel writes made so far, in order
    summary,              \* what summarize_alarms returned
    metadata,             \* _update_metadata: the dict of the data file
    pv_values,            \* values of the channels a function writes
    period_text,          \* sample_period_to_seconds: the text
    seconds,              \* what sample_period_to_seconds returned
    sim_state,            \* sim_server: GlobalState.state
    sim_req,              \* sim_server: the requests served, in order
    sim_resp,             \* sim_server: what each was answered with
    call_pc,              \* block_on_reentry: position of each call
    call_key,             \* block_on_reentry: (instance, key) of each call
    lock_ctx              \* block_on_reentry: self._context of each instance

vars == <<last_timestamp, sync_records, available_records, server_state, pc,
          state_info, df, items, new_rows, i, posted, rebuild_sent,
          download_sent, last_pc, tick_lt, tick_nr, in_flight, alarms, html,
          post_row, field_i, writes, summary, metadata, pv_values,
          period_text, seconds, sim_state, sim_req, sim_resp, call_pc,
          call_key, lock_ctx>>

pvs == <<last_timestamp, sync_records, available_records, server_state>>
tick_locals == <<state_info, df, items, new_rows, i, posted>>
sent == <<rebuild_sent, download_sent>>
tick_start == <<tick_lt, tick_nr>>

\* the state of the functions that are modelled on their own below
aux_vars == <<period_text, seconds, sim_state, sim_req, sim_resp, call_pc,
              call_key, lock_ctx>>
fn_vars == <<html, post_row, field_i, writes, summary, metadata, pv_values,
             aux_vars>>

\* ------------------------------------------------------------ alarm groups
\* The alarm_group names of the pvproperty declarations.  "sample_volume"
\* stands for the groups of the channels of _data_key_to_property, each of
\* which is the only member of its group.
NamedAlarmGroups == {"server", "overall_alarm", "sample_period",
                     "sample_volume"}

\* The key None of self.alarms: the channels declared without alarm_group
\* (Host, Port, RequestTimeout, DataTimeout, Timezone, the five metadata
\* channels, __update_hook__).
NoAlarmGroup == "None"

AlarmGroups == NamedAlarmGroups \cup {NoAlarmGroup}

NoAlarm == [status |-> "NO_ALARM", severity |-> "NO_ALARM"]
CommAlarm == [status |-> "COMM", severity |-> "MAJOR_ALARM"]
ReadAlarm == [status |-> "READ", severity |-> "MAJOR_ALARM"]
UdfAlarm == [status |-> "UDF", severity |-> "NO_ALARM"]

\* The alarm a channel of _data_key_to_property is left with by one
\* _post_new_row in the ticks of Spec, whose rows hold a number in the
\* channel's column and 0 in the alarm columns: that of its value write.
\* PostSpec follows the rows with alarms and with empty cells.
TickRowAlarm == NoAlarm

\* the except clause without the "key is not None" test
ForceCommAll(al) == [g \in DOMAIN al |-> CommAlarm]

\* for key, alarm in self.alarms.items(): if key is not None: alarm.write(...)
ForceComm(al) ==
    [g \in DOMAIN al |-> IF g # NoAlarmGroup THEN CommAlarm ELSE al[g]]

\* -------------------------------------------------------------- _find_new_rows
\* df.head(1) in place of df.tail(1)
Head1(d) == IF Len(d) = 0 THEN <<>> ELSE <<d[1]>>

\* df.tail(1)
Tail1(d) == IF Len(d) = 0 THEN <<>> ELSE <<d[Len(d)]>>

\* the cutoff without the 0.1 s margin
LastDtNoMargin(lt) == lt

\* datetime.fromtimestamp(last_timestamp) + timedelta(seconds=0.1), then
\* .astimezone(): the same instant plus 0.1 s.  The detour through the naive
\* local time is exact for every instant outside the repeated hour of a
\* daylight-saving fall-back of the host's zone; the host is taken to run in
\* the zone of the data (where a row inside that hour does not parse, so no
\* watermark lies in it) or in a zone without daylight saving.
LastDt(lt) == lt + Margin

\* a slice that leaves out the row exactly at the cutoff
LocFromStrict(d, dt) == SelectSeq(d, LAMBDA r : r.ts > dt)

\* df.loc[last_dt:] on the monotonic timestamp index
LocFrom(d, dt) == SelectSeq(d, LAMBDA r : r.ts >= dt)

\* self.last_timestamp.value < 1e-6
IsUnset(lt) == lt < Epsilon

\* _find_new_rows without the "IOC rebooted" branch
FindNewRowsNoFallback(d, lt, nr) ==
    IF IsUnset(lt) THEN Tail1(d) ELSE LocFrom(d, LastDt(lt))

FindNewRows(d, lt, nr) ==
    IF IsUnset(lt)
    THEN Tail1(d)
    ELSE LET found == LocFrom(d, LastDt(lt))
         IN  IF Len(found) = 0 /\ nr = 0 THEN Tail1(d) ELSE found

\* ------------------------------------------------- sorted(... .iterrows())
\* sorted() orders the (timestamp, row) tuples.  Two tuples with the same
\* timestamp are ordered by comparing the rows, and the truth value of a
\* pandas.Series comparison raises ValueError.
SortRaises(s) ==
    \E a, b \in DOMAIN s : a # b /\ s[a].ts = s[b].ts

RECURSIVE InsertRow(_, _)
InsertRow(r, s) ==
    IF s = <<>> THEN <<r>>
    ELSE IF r.ts < Head(s).ts THEN <<r>> \o s
    ELSE <<Head(s)>> \o InsertRow(r, Tail(s))

RECURSIVE SortedRows(_)
SortedRows(s) ==
    IF s = <<>> THEN <<>>
    ELSE InsertRow(Head(s), SortedRows(Tail(s)))

\* ------------------------------------------------------------ _post_new_row
\* The 'Sample Units' block is outside every try: np.isnan on a text raises.
PostRaises(row) == row.units = "text"

\* ---------------------------------------------------------------- decisions
\* new_records_available with >= in place of >
NewRecordsAvailableOrEqual(avail, sync) == avail >= sync

NewRecordsAvailable(avail, sync) == avail > sync

\* _should_download without the test of the server state
ShouldDownloadAnyState(state, avail, sync) ==
    NewRecordsAvailable(avail, sync)

\* self.server_state.value == 'download' and self.new_records_available
ShouldDownload(state, avail, sync) ==
    state = "download" /\ NewRecordsAvailable(avail, sync)

\* a rebuild request whatever the record counts are
ShouldRebuildAnyCount(state, avail, sync) == state = "new_data"

\* state == 'new_data' and self.new_records_available
ShouldRebuild(state, avail, sync) ==
    state = "new_data" /\ NewRecordsAvailable(avail, sync)

\* an AvailableRecords that forgets its count when the page carries none
NextAvailableRecordsReset(info, avail) ==
    IF info.records # NoRecords THEN info.records ELSE 0

\* records is not None and records != self.available_records.value
NextAvailableRecords(info, avail) ==
    IF info.records # NoRecords /\ info.records # avail
    THEN info.records ELSE avail

\* a ServerState that keeps 'download' once it has been written
NextServerStateKeepsDownload(info, state) ==
    IF state = "download" THEN state ELSE info.state

\* state is not None and state != self.server_state.value
NextServerState(info, state) ==
    IF info.state # state THEN info.state ELSE state

\* ------------------------------------------------- states outside a function
\* The function-level variables while no such function is being followed.
AuxUnused ==
    /\ period_text = <<>>
    /\ seconds = 0
    /\ sim_state = "new_data"
    /\ sim_req = <<>>
    /\ sim_resp = <<>>
    /\ call_pc = <<>>
    /\ call_key = <<>>
    /\ lock_ctx = <<>>

FnUnused ==
    /\ AuxUnused
    /\ html = <<>>
    /\ post_row = <<>>
    /\ field_i = 1
    /\ writes = <<>>
    /\ summary = 0
    /\ metadata = <<>>
    /\ pv_values = <<>>

\* The tick-level variables while a function is followed on its own: the
\* group as constructed, before the first call of update_hook.
TickUnused ==
    /\ last_timestamp = 0
    /\ sync_records = 0
    /\ available_records = 0
    /\ server_state = "unknown"
    /\ state_info = NoStateInfo
    /\ df = <<>>
    /\ items = <<>>
    /\ new_rows = <<>>
    /\ i = 1
    /\ posted = <<>>
    /\ rebuild_sent = FALSE
    /\ download_sent = FALSE
    /\ last_pc = "idle"
    /\ tick_lt = 0
    /\ tick_nr = 0
    /\ in_flight = 0
    /\ alarms = [g \in AlarmGroups |-> NoAlarm]

tick_vars == <<pvs, tick_locals, sent, last_pc, tick_start, in_flight, alarms>>

\* --------------------------------------------------------------------- Init
\* LastTimestamp is restored by autosave: 0.0 on a first start, otherwise a
\* value written by an earlier run.  NumRecords is not autosaved.
Init ==
    /\ last_timestamp \in {0} \cup TimeStamps
    /\ sync_records = 0
    /\ available_records = 0
    /\ server_state = "unknown"
    /\ pc = "sleep"
    /\ state_info = NoStateInfo
    /\ df = <<>>
    /\ items = <<>>
    /\ new_rows = <<>>
    /\ i = 1
    /\ posted = <<>>
    /\ rebuild_sent = FALSE
    /\ download_sent = FALSE
    /\ last_pc = "idle"
    /\ tick_lt = last_timestamp
    /\ tick_nr = 0
    /\ in_flight = 0
    /\ alarms = [g \in AlarmGroups |-> NoAlarm]
    /\ FnUnused

\* ------------------------------------------------------ update_hook: steps
\* The tick fails: control goes to the except clause of update_hook.
Fail ==
    /\ pc' = "failed"
    /\ last_pc' = pc

\* a scan loop that calls update_hook on every period, finished or not
ScanFireOverlapping ==
    /\ in_flight < 2
    /\ in_flight' = in_flight + 1
    /\ pc' = IF pc = "sleep" THEN "idle" ELSE pc
    /\ UNCHANGED <<pvs, tick_locals, sent, last_pc, tick_start, alarms,
                   fn_vars>>

\* @update_hook.scan(period=5): the scan loop awaits update_hook, sleeps, and
\* calls it again; nothing else calls it.
ScanFire ==
    /\ pc = "sleep"
    /\ in_flight' = in_flight + 1
    /\ pc' = "idle"
    /\ UNCHANGED <<pvs, tick_locals, sent, last_pc, tick_start, alarms,
                   fn_vars>>

\* _update_server_state up to the rebuild decision: comm.check_state answered.
CheckStateOk(info) ==
    /\ UNCHANGED <<in_flight, alarms, fn_vars>>
    /\ pc = "idle"
    /\ state_info' = info
    /\ available_records' = NextAvailableRecords(info, available_records)
    /\ server_state' = NextServerState(info, server_state)
    /\ pc' = IF ShouldRebuild(info.state, available_records', sync_records)
             THEN "rebuild" ELSE "decide"
    /\ UNCHANGED <<last_timestamp, sync_records, df, items, new_rows, i,
                   posted, sent, last_pc, tick_start>>

\* comm.check_state raised, or asyncio.wait_for timed out.
CheckStateFail ==
    /\ UNCHANGED <<in_flight, alarms, fn_vars>>
    /\ pc = "idle"
    /\ Fail
    /\ UNCHANGED <<pvs, tick_locals, sent, tick_start>>

\* comm.request_rebuild answered.
RequestRebuildOk ==
    /\ UNCHANGED <<in_flight, alarms, fn_vars>>
    /\ pc = "rebuild"
    /\ rebuild_sent' = TRUE
    /\ pc' = "decide"
    /\ UNCHANGED <<pvs, tick_locals, download_sent, last_pc, tick_start>>

\* comm.request_rebuild raised.
RequestRebuildFail ==
    /\ UNCHANGED <<in_flight, alarms, fn_vars>>
    /\ pc = "rebuild"
    /\ rebuild_sent' = TRUE
    /\ Fail
    /\ UNCHANGED <<pvs, tick_locals, download_sent, tick_start>>

\* if self._should_download(): ...
Decide ==
    /\ UNCHANGED <<in_flight, alarms, fn_vars>>
    /\ pc = "decide"
    /\ IF ShouldDownload(server_state, available_records, sync_records)
       THEN pc' = "download" /\ UNCHANGED last_pc
       ELSE pc' = "done" /\ last_pc' = pc
    /\ UNCHANGED <<pvs, tick_locals, sent, tick_start>>

\* _download_data_file returned (metadata, df).  The _update_metadata that
\* follows writes the five metadata channels only, which nothing in the tick
\* reads; it is followed on its own in MetaSpec.
DownloadOk(table) ==
    /\ UNCHANGED <<in_flight, alarms, fn_vars>>
    /\ pc = "download"
    /\ download_sent' = TRUE
    /\ df' = table
    /\ pc' = "diff"
    /\ UNCHANGED <<pvs, state_info, items, new_rows, i, posted,
                   rebuild_sent, last_pc, tick_start>>

\* a failed download that also clears NumRecords
DownloadFailClears ==
    /\ UNCHANGED <<in_flight, alarms, fn_vars>>
    /\ pc = "download"
    /\ download_sent' = TRUE
    /\ sync_records' = 0
    /\ Fail
    /\ UNCHANGED <<last_timestamp, available_records, server_state,
                   tick_locals, rebuild_sent, tick_start>>

\* comm.get_data_file raised, timed out, or the file did not parse.
DownloadFail ==
    /\ UNCHANGED <<in_flight, alarms, fn_vars>>
    /\ pc = "download"
    /\ download_sent' = TRUE
    /\ Fail
    /\ UNCHANGED <<pvs, tick_locals, rebuild_sent, tick_start>>

\* self._find_new_rows(df)
FindNewRowsStep ==
    /\ UNCHANGED <<in_flight, alarms, fn_vars>>
    /\ pc = "diff"
    /\ items' = FindNewRows(df, last_timestamp, sync_records)
    /\ pc' = "sort"
    /\ UNCHANGED <<pvs, state_info, df, new_rows, i, posted, sent, last_pc,
                   tick_start>>

\* for timestamp, row in sorted(... .iterrows()):
SortStep ==
    /\ UNCHANGED <<in_flight, alarms, fn_vars>>
    /\ pc = "sort"
    /\ IF SortRaises(items)
       THEN Fail /\ UNCHANGED new_rows
       ELSE /\ new_rows' = SortedRows(items)
            /\ pc' = "publish"
            /\ UNCHANGED last_pc
    /\ i' = 1
    /\ UNCHANGED <<pvs, state_info, df, items, posted, sent, tick_start>>

\* await self._post_new_row(timestamp, row)
PostNewRow ==
    /\ pc = "publish"
    /\ i <= Len(new_rows)
    /\ posted' = Append(posted, new_rows[i])
    /\ alarms' = [alarms EXCEPT !["sample_volume"] = TickRowAlarm]
    /\ UNCHANGED <<in_flight, fn_vars>>
    /\ IF PostRaises(new_rows[i])
       THEN Fail
       ELSE pc' = "stamp" /\ UNCHANGED last_pc
    /\ UNCHANGED <<pvs, state_info, df, items, new_rows, i, sent,
                   tick_start>>

\* the watermark written with the newest selected row, not the current one
WriteLastTimestampAhead ==
    /\ UNCHANGED <<in_flight, alarms, fn_vars>>
    /\ pc = "stamp"
    /\ last_timestamp' = new_rows[Len(new_rows)].ts
    /\ i' = i + 1
    /\ pc' = "publish"
    /\ UNCHANGED <<sync_records, available_records, server_state,
                   state_info, df, items, new_rows, posted, sent, last_pc,
                   tick_start>>

\* await self.last_timestamp.write(value=timestamp)
WriteLastTimestamp ==
    /\ UNCHANGED <<in_flight, alarms, fn_vars>>
    /\ pc = "stamp"
    /\ last_timestamp' = new_rows[i].ts
    /\ i' = i + 1
    /\ pc' = "publish"
    /\ UNCHANGED <<sync_records, available_records, server_state,
                   state_info, df, items, new_rows, posted, sent, last_pc,
                   tick_start>>

\* NumRecords written with the number of rows posted
WriteSyncRecordsPosted ==
    /\ UNCHANGED <<in_flight, alarms, fn_vars>>
    /\ pc = "publish"
    /\ i > Len(new_rows)
    /\ sync_records' = Len(posted)
    /\ pc' = "done"
    /\ last_pc' = pc
    /\ UNCHANGED <<last_timestamp, available_records, server_state,
                   tick_locals, sent, tick_start>>

\* await self.sync_records.write(value=len(df))
WriteSyncRecords ==
    /\ UNCHANGED <<in_flight, alarms, fn_vars>>
    /\ pc = "publish"
    /\ i > Len(new_rows)
    /\ sync_records' = Len(df)
    /\ pc' = "done"
    /\ last_pc' = pc
    /\ UNCHANGED <<last_timestamp, available_records, server_state,
                   tick_locals, sent, tick_start>>

\* update_hook returns to the scan loop; the next call starts with fresh
\* locals.
NextTick ==
    /\ state_info' = NoStateInfo
    /\ df' = <<>>
    /\ items' = <<>>
    /\ new_rows' = <<>>
    /\ i' = 1
    /\ posted' = <<>>
    /\ rebuild_sent' = FALSE
    /\ download_sent' = FALSE
    /\ last_pc' = "idle"
    /\ tick_lt' = last_timestamp
    /\ tick_nr' = sync_records
    /\ in_flight' = in_flight - 1
    /\ pc' = "sleep"
    /\ UNCHANGED fn_vars

\* except Exception: log, force the alarms, return.
UpdateFailed ==
    /\ pc = "failed"
    /\ alarms' = ForceComm(alarms)
    /\ NextTick
    /\ UNCHANGED pvs

\* update_hook returned normally.
UpdateDone ==
    /\ pc = "done"
    /\ NextTick
    /\ UNCHANGED <<pvs, alarms>>

Next ==
    \/ ScanFire
    \/ \E info \in StateInfos : CheckStateOk(info)
    \/ CheckStateFail
    \/ RequestRebuildOk
    \/ RequestRebuildFail
    \/ Decide
    \/ \E table \in TickTables : DownloadOk(table)
    \/ DownloadFail
    \/ FindNewRowsStep
    \/ SortStep
    \/ PostNewRow
    \/ WriteLastTimestamp
    \/ WriteSyncRecords
    \/ UpdateFailed
    \/ UpdateDone

Spec == Init /\ [][Next]_vars

\* ------------------------------------------- _download_and_update on its own
\* One run of the diff and publish phase of _download_and_update, started on
\* any downloaded table and any watermark.
DiffInit ==
    /\ last_timestamp \in {0} \cup TimeStamps
    /\ sync_records \in 0..MaxLen
    /\ available_records = MaxRecords
    /\ server_state = "download"
    /\ pc = "diff"
    /\ state_info = [state |-> "download", records |-> MaxRecords]
    /\ df \in Tables
    /\ items = <<>>
    /\ new_rows = <<>>
    /\ i = 1
    /\ posted = <<>>
    /\ rebuild_sent = FALSE
    /\ download_sent = TRUE
    /\ last_pc = "idle"
    /\ tick_lt = last_timestamp
    /\ tick_nr = sync_records
    /\ in_flight = 1
    /\ alarms = [g \in AlarmGroups |-> NoAlarm]
    /\ FnUnused

DiffNext ==
    \/ FindNewRowsStep
    \/ SortStep
    \/ PostNewRow
    \/ WriteLastTimestamp
    \/ WriteSyncRecords

DiffSpec == DiffInit /\ [][DiffNext]_vars

\* ------------------------------------------------- get_state_information
\* A status page is a sequence of pieces of text: the three markers, the
\* name of the data file, a line break, a table cell without digits, a table
\* cell with a record count, and any other text.
HtmlKinds == {"New data available.", "Building Data file",
              "Click link above to download", "DATA.TSV", "\n",
              "left><.td>", "text"}

CountCell == "left>(n)<.td>"

HtmlTokens ==
    {[kind |-> x, n |-> 0] : x \in HtmlKinds}
    \cup {[kind |-> CountCell, n |-> n] : n \in 0..MaxRecords}

Htmls == UNION {[1..n -> HtmlTokens] : n \in 0..MaxHtml}

\* marker in html
Contains(h, marker) == \E j \in DOMAIN h : h[j].kind = marker

\* RE_NUM_RECORDS matches from piece a to piece b: DATA.TSV, then anything
\* but a line break, then a cell with at least one digit.
ReMatch(h, a, b) ==
    /\ a < b
    /\ h[a].kind = "DATA.TSV"
    /\ h[b].kind = CountCell
    /\ \A j \in (a + 1)..(b - 1) : h[j].kind # "\n"

\* RE_NUM_RECORDS.search(html): the leftmost start, and from it the nearest
\* cell (.*? is lazy); int() of its digits, or no match.
ReNumRecordsSearch(h) ==
    LET starts == {a \in DOMAIN h : \E b \in DOMAIN h : ReMatch(h, a, b)}
    IN  IF starts = {} THEN NoRecords
        ELSE LET a == CHOOSE x \in starts : \A y \in starts : x <= y
                 ends == {b \in DOMAIN h : ReMatch(h, a, b)}
                 b == CHOOSE x \in ends : \A y \in ends : x <= y
             IN  h[b].n

\* get_state_information with the download marker tested first
GetStateInformationDownloadFirst(h) ==
    [state |-> IF Contains(h, "Click link above to download") THEN "download"
               ELSE IF Contains(h, "New data available.") THEN "new_data"
               ELSE IF Contains(h, "Building Data file") THEN "rebuilding"
               ELSE "unknown",
     records |-> ReNumRecordsSearch(h)]

GetStateInformation(h) ==
    [state |-> IF Contains(h, "New data available.") THEN "new_data"
               ELSE IF Contains(h, "Building Data file") THEN "rebuilding"
               ELSE IF Contains(h, "Click link above to download")
                    THEN "download"
               ELSE "unknown",
     records |-> ReNumRecordsSearch(h)]

StateInit ==
    /\ pc = "parse"
    /\ html \in Htmls
    /\ post_row = <<>>
    /\ field_i = 1
    /\ writes = <<>>
    /\ summary = 0
    /\ metadata = <<>>
    /\ pv_values = <<>>
    /\ TickUnused
    /\ AuxUnused

GetStateInformationStep ==
    /\ pc = "parse"
    /\ state_info' = GetStateInformation(html)
    /\ pc' = "parsed"
    /\ UNCHANGED <<pvs, df, items, new_rows, i, posted, sent, last_pc,
                   tick_start, in_flight, alarms, fn_vars>>

StateNext == GetStateInformationStep

StateSpec == StateInit /\ [][StateNext]_vars

\* -------------------------------------------------------- values of a row
\* What a cell of the table holds after pandas.read_csv: a number, the
\* float NaN of an empty cell, a text, a text of the form HH:MM:SS worth n
\* seconds; "absent" marks a column that the table does not have.
Num(n) == [kind |-> "num", n |-> n]
NaN == [kind |-> "nan", n |-> 0]
Text == [kind |-> "text", n |-> 0]
Hms(n) == [kind |-> "hms", n |-> n]
Absent == [kind |-> "absent", n |-> 0]

ALARM_KEYS == <<"Cal Alarm", "Flow Alarm", "Over Conc. Alarm", "System Alarm",
                "Count Alarm", "Battery Alarm", "Laser Alarm">>

AlarmKeySet == {ALARM_KEYS[j] : j \in DOMAIN ALARM_KEYS}

\* The columns of a row, in the order of row.items().  'Sample Volume' and
\* 'Count Mode' stand for the twenty mapped columns that are not alarms: one
\* with a float channel, one with a text channel.
RowOrder == <<"Sample Volume", "Sample Units", "Count Mode", "Sample Period">>
            \o ALARM_KEYS

RowKeys == {RowOrder[j] : j \in DOMAIN RowOrder}

\* ------------------------------------------------------- summarize_alarms
\* x > m of Python: False whenever one side is NaN.
PyGreater(x, m) == x.kind = "num" /\ m.kind = "num" /\ x.n > m.n

\* max(values): the first value, replaced by each later one that is greater
RECURSIVE PyMax(_, _)
PyMax(m, rest) ==
    IF rest = <<>> THEN m
    ELSE PyMax(IF PyGreater(Head(rest), m) THEN Head(rest) ELSE m, Tail(rest))

\* row[key] raises KeyError for a missing column; comparing a text with a
\* number raises TypeError.
SummarizeAlarmsRaises(r) ==
    \E key \in AlarmKeySet : r[key].kind \in {"absent", "text"}

\* summarize_alarms without the last of ALARM_KEYS
SummarizeAlarmsButLast(r) ==
    LET values == [j \in 1..(Len(ALARM_KEYS) - 1) |-> r[ALARM_KEYS[j]]]
    IN  PyMax(Head(values), Tail(values))

\* max(row[key] for key in ALARM_KEYS)
SummarizeAlarms(r) ==
    LET values == [j \in DOMAIN ALARM_KEYS |-> r[ALARM_KEYS[j]]]
    IN  PyMax(Head(values), Tail(values))

\* A row around the alarm columns al.
RowWith(sv, su, cm, sp, al) ==
    [key \in RowKeys |->
        CASE key = "Sample Volume" -> sv
          [] key = "Sample Units" -> su
          [] key = "Count Mode" -> cm
          [] key = "Sample Period" -> sp
          [] OTHER -> al[key]]

\* Rows with every combination of the alarm values 0..MaxAlarm.
AlarmRows ==
    {RowWith(Num(1), NaN, Text, Hms(900), al) :
        al \in [AlarmKeySet -> {Num(n) : n \in 0..MaxAlarm}]}

AlarmInit ==
    /\ pc = "summarize_alarms"
    /\ post_row \in AlarmRows
    /\ html = <<>>
    /\ field_i = 1
    /\ writes = <<>>
    /\ summary = 0
    /\ metadata = <<>>
    /\ pv_values = <<>>
    /\ TickUnused
    /\ AuxUnused

SummarizeAlarmsStep ==
    /\ pc = "summarize_alarms"
    /\ ~SummarizeAlarmsRaises(post_row)
    /\ summary' = SummarizeAlarms(post_row).n
    /\ pc' = "summarized"
    /\ UNCHANGED <<tick_vars, aux_vars, html, post_row, field_i, writes, metadata,
                   pv_values>>

AlarmNext == SummarizeAlarmsStep

AlarmSpec == AlarmInit /\ [][AlarmNext]_vars

\* ------------------------------------------------------- _post_new_row
\* _data_key_to_property, on the mapped columns of RowOrder
DataKeyToProperty ==
    [key \in RowKeys \ {"Sample Units", "Sample Period"} |->
        CASE key = "Sample Volume" -> "sample_volume"
          [] key = "Count Mode" -> "count_mode"
          [] key = "Cal Alarm" -> "cal_alarm"
          [] key = "Flow Alarm" -> "flow_alarm"
          [] key = "Over Conc. Alarm" -> "over_conc_alarm"
          [] key = "System Alarm" -> "system_alarm"
          [] key = "Count Alarm" -> "count_alarm"
          [] key = "Battery Alarm" -> "battery_alarm"
          [] key = "Laser Alarm" -> "laser_alarm"]

MappedKeys == DOMAIN DataKeyToProperty

Channels ==
    {DataKeyToProperty[key] : key \in MappedKeys}
    \cup {"overall_alarm", "sample_period"}

\* type(prop.value), from the value= of the pvproperty declaration
ChannelType(chan) ==
    CASE chan = "sample_volume" -> "float"
      [] chan = "count_mode" -> "str"
      [] OTHER -> "int"

\* the value= of the pvproperty declaration
InitialValue(chan) ==
    IF ChannelType(chan) = "str" THEN Text ELSE Num(0)

\* int('CF') and float('CF') raise ValueError; str() takes anything.
TypeCastRaises(type, v) ==
    type \in {"int", "float"} /\ v.kind \in {"text", "hms"}

TypeCast(type, v) ==
    IF type = "str" THEN [kind |-> "text", n |-> v.n] ELSE v

\* a test that takes no value for empty
IsEmptyValueNever(v) == FALSE

\* isinstance(value, float) and np.isnan(value)
IsEmptyValue(v) == v.kind = "nan"

\* a row status that ignores the alarm summary
RowStatusNoAlarm(alarm_summary) == NoAlarm

\* status, severity of the value writes of the row
RowStatus(alarm_summary) ==
    IF alarm_summary # 0 THEN ReadAlarm ELSE NoAlarm

\* a write that passes neither status nor severity
NotGiven == [status |-> "-", severity |-> "-"]

PostInitialValues == [chan \in Channels |-> InitialValue(chan)]

\* Rows with a number, an empty cell or a text in the float column, a text
\* or an empty cell in the text column, 'Sample Units' as text, empty or
\* missing, 'Sample Period' valid or empty, the first alarm column 0, 1 or
\* missing and the last one 0, 1 or empty.
PostRows ==
    {RowWith(sv, su, cm, sp,
             [key \in AlarmKeySet |->
                 CASE key = "Cal Alarm" -> cal
                   [] key = "Laser Alarm" -> laser
                   [] OTHER -> Num(0)]) :
        sv \in {Num(1), NaN, Text},
        su \in {NaN, Text, Absent},
        cm \in {Text, NaN},
        sp \in {Hms(900), NaN},
        cal \in {Num(0), Num(1), Absent},
        laser \in {Num(0), Num(1), NaN}}

PostInit ==
    /\ pc = "summarize"
    /\ post_row \in PostRows
    /\ html = <<>>
    /\ field_i = 1
    /\ writes = <<>>
    /\ summary = 0
    /\ metadata = <<>>
    /\ pv_values = PostInitialValues
    /\ TickUnused
    /\ AuxUnused

\* except Exception: alarm_summary = 1
AlarmSummaryOnFailure == 1

\* try: alarm_summary = data.summarize_alarms(row); overall_alarm.write(...)
\* except Exception: alarm_summary = 1.  The write of the channel either
\* succeeds or raises.
PostSummarize ==
    /\ pc = "summarize"
    /\ \E write_ok \in BOOLEAN :
          IF SummarizeAlarmsRaises(post_row) \/ ~write_ok
          THEN /\ summary' = AlarmSummaryOnFailure
               /\ UNCHANGED <<writes, pv_values>>
          ELSE LET alarm_summary == SummarizeAlarms(post_row)
               IN  /\ summary' = alarm_summary.n
                   /\ writes' = Append(writes,
                           [chan |-> "overall_alarm", op |-> "write",
                            value |-> alarm_summary, alarm |-> NotGiven])
                   /\ pv_values' =
                           [pv_values EXCEPT
                               !["overall_alarm"] = alarm_summary]
    /\ pc' = "fields"
    /\ UNCHANGED <<tick_vars, aux_vars, html, post_row, field_i, metadata>>

\* one turn of "for key, value in row.items()"
PostField ==
    /\ pc = "fields"
    /\ field_i <= Len(RowOrder)
    /\ LET key == RowOrder[field_i]
           value == post_row[key]
       IN  IF value.kind = "absent" \/ key \notin MappedKeys
           THEN UNCHANGED <<writes, pv_values>>
           ELSE LET prop == DataKeyToProperty[key]
                    type_cast == ChannelType(prop)
                IN  IF IsEmptyValue(value)
                    THEN /\ writes' = Append(writes,
                                [chan |-> prop, op |-> "write_metadata",
                                 value |-> value, alarm |-> UdfAlarm])
                         /\ UNCHANGED pv_values
                    ELSE IF TypeCastRaises(type_cast, value)
                    THEN UNCHANGED <<writes, pv_values>>
                    ELSE /\ writes' = Append(writes,
                                [chan |-> prop, op |-> "write",
                                 value |-> TypeCast(type_cast, value),
                                 alarm |-> RowStatus(summary)])
                         /\ pv_values' =
                                [pv_values EXCEPT
                                    ![prop] = TypeCast(type_cast, value)]
    /\ field_i' = field_i + 1
    /\ UNCHANGED <<tick_vars, aux_vars, pc, html, post_row, summary, metadata>>

\* The 'Sample Units' block: KeyError is caught, NaN writes nothing, and
\* np.isnan of a text raises TypeError, which nothing catches.
PostUnits ==
    /\ pc = "fields"
    /\ field_i > Len(RowOrder)
    /\ pc' = IF PostRaises([units |-> post_row["Sample Units"].kind])
             THEN "post_raised" ELSE "period"
    /\ UNCHANGED <<tick_vars, fn_vars>>

\* try: sample_period.write(value=sample_period_to_seconds(...)) except: log
PostPeriod ==
    /\ pc = "period"
    /\ LET value == post_row["Sample Period"]
       IN  IF value.kind = "hms"
           THEN /\ writes' = Append(writes,
                       [chan |-> "sample_period", op |-> "write",
                        value |-> Num(value.n), alarm |-> NotGiven])
                /\ pv_values' =
                       [pv_values EXCEPT !["sample_period"] = Num(value.n)]
           ELSE UNCHANGED <<writes, pv_values>>
    /\ pc' = "posted"
    /\ UNCHANGED <<tick_vars, aux_vars, html, post_row, field_i, summary, metadata>>

PostNext ==
    \/ PostSummarize
    \/ PostField
    \/ PostUnits
    \/ PostPeriod

PostSpec == PostInit /\ [][PostNext]_vars

\* -------------------------------------------------------- _update_metadata
\* _metadata_to_property, in the order of its items()
MetadataKeys == <<"Model Number", "Serial Number", "Firmware Version",
                  "Hardware Version", "Bootloader">>

MetadataToProperty ==
    <<"model_number", "serial_number", "firmware_version",
      "hardware_version", "bootloader_version">>

MetaChannels == {MetadataToProperty[j] : j \in DOMAIN MetadataToProperty}

\* Texts are sequences of characters.
Repeat(c, n) == [j \in 1..n |-> c]

Unknown == <<"u", "n", "k", "n", "o", "w", "n">>

\* What metadata.get(key, 'unknown') returns: the default for a key the
\* header lacks, or one of two texts one character longer than max_length
\* that differ in their last character only.
MetaValues == {Unknown,
               Repeat("x", MaxLength) \o <<"a">>,
               Repeat("x", MaxLength) \o <<"b">>}

\* the value taken whole
NoTruncate(value, max_length) == value

\* value[:pvprop.max_length]
Truncate(value, max_length) ==
    SubSeq(value, 1, IF Len(value) < max_length THEN Len(value)
                     ELSE max_length)

MetaInit ==
    /\ pc = "metadata"
    /\ field_i = 1
    /\ pv_values = [chan \in MetaChannels |-> <<>>]
    /\ metadata = <<>>
    /\ writes = <<>>
    /\ html = <<>>
    /\ post_row = <<>>
    /\ summary = 0
    /\ TickUnused
    /\ AuxUnused

\* One turn of the loop of _update_metadata, on the value of the next key:
\* _write_metadata_if_changed.  writes holds the writes of this call; after
\* the last key the next download starts at the first one.
WriteMetadataIfChanged(new) ==
    /\ pc = "metadata"
    /\ metadata' = new
    /\ LET pvprop == MetadataToProperty[field_i]
           value == Truncate(new, MaxLength)
       IN  IF pv_values[pvprop] # value
           THEN /\ writes' = <<[chan |-> pvprop, value |-> value]>>
                /\ pv_values' = [pv_values EXCEPT ![pvprop] = value]
           ELSE /\ writes' = <<>>
                /\ UNCHANGED pv_values
    /\ field_i' = IF field_i = Len(MetadataKeys) THEN 1 ELSE field_i + 1
    /\ UNCHANGED <<tick_vars, aux_vars, pc, html, post_row, summary>>

MetaNext == \E new \in MetaValues : WriteMetadataIfChanged(new)

MetaSpec == MetaInit /\ [][MetaNext]_vars

\* ------------------------------------------------ sample_period_to_seconds
\* Texts are sequences of characters.
DigitChars == <<"0", "1", "2", "3", "4", "5", "6", "7", "8", "9">>

IsDigit(c) == \E j \in DOMAIN DigitChars : DigitChars[j] = c

DigitValue(c) == (CHOOSE j \in DOMAIN DigitChars : DigitChars[j] = c) - 1

\* str.split(sep)
RECURSIVE PySplit(_, _)
PySplit(text, sep) ==
    IF \A j \in DOMAIN text : text[j] # sep THEN <<text>>
    ELSE LET at == CHOOSE j \in DOMAIN text :
                       text[j] = sep /\ \A j2 \in 1..(j - 1) : text[j2] # sep
         IN  <<SubSeq(text, 1, at - 1)>>
             \o PySplit(SubSeq(text, at + 1, Len(text)), sep)

\* int(text) raises ValueError on an empty text and on a character that is
\* not a digit (texts hold digits and colons only).
PyIntRaises(text) ==
    text = <<>> \/ \E j \in DOMAIN text : ~IsDigit(text[j])

\* an int() that reads the last digit only
PyIntLastDigit(text) == DigitValue(text[Len(text)])

\* int(text) of a text of decimal digits
RECURSIVE PyInt(_)
PyInt(text) ==
    IF text = <<>> THEN 0
    ELSE 10 * PyInt(SubSeq(text, 1, Len(text) - 1))
         + DigitValue(text[Len(text)])

\* the unpacking into three names raises ValueError for another number of
\* parts
SamplePeriodToSecondsRaises(sample_period) ==
    LET parts == PySplit(sample_period, ":")
    IN  Len(parts) # 3 \/ \E j \in DOMAIN parts : PyIntRaises(parts[j])

SamplePeriodToSeconds(sample_period) ==
    LET parts == PySplit(sample_period, ":")
        hours == parts[1]
        minutes == parts[2]
        secs == parts[3]
    IN  SecondsPerHour * PyInt(hours) + SecondsPerMinute * PyInt(minutes)
        + PyInt(secs)

\* the texts HH:MM:SS with digits up to MaxDigit
PeriodTexts ==
    LET digits == {DigitChars[j] : j \in 1..(MaxDigit + 1)}
    IN  {<<h1, h2, ":", m1, m2, ":", s1, s2>> :
            h1 \in digits, h2 \in digits, m1 \in digits, m2 \in digits,
            s1 \in digits, s2 \in digits}

PeriodInit ==
    /\ pc = "sample_period"
    /\ period_text \in PeriodTexts
    /\ seconds = 0
    /\ sim_state = "new_data"
    /\ sim_req = <<>>
    /\ sim_resp = <<>>
    /\ call_pc = <<>>
    /\ call_key = <<>>
    /\ lock_ctx = <<>>
    /\ html = <<>>
    /\ post_row = <<>>
    /\ field_i = 1
    /\ writes = <<>>
    /\ summary = 0
    /\ metadata = <<>>
    /\ pv_values = <<>>
    /\ TickUnused

SamplePeriodToSecondsStep ==
    /\ pc = "sample_period"
    /\ IF SamplePeriodToSecondsRaises(period_text)
       THEN pc' = "sample_period_raised" /\ UNCHANGED seconds
       ELSE /\ seconds' = SamplePeriodToSeconds(period_text)
            /\ pc' = "sample_period_done"
    /\ UNCHANGED <<tick_vars, html, post_row, field_i, writes, summary,
                   metadata, pv_values, period_text, sim_state, sim_req,
                   sim_resp, call_pc, call_key, lock_ctx>>

PeriodNext == SamplePeriodToSecondsStep

PeriodSpec == PeriodInit /\ [][PeriodNext]_vars

\* --------------------------------------------------------------- sim_server
SimStates == {"new_data", "request", "rebuilding", "download"}

\* GlobalState.STATE_TO_HTML
StateToHtml(state) ==
    CASE state = "new_data" -> "new_data.html"
      [] state = "rebuilding" -> "rebuilding.html"
      [] state = "download" -> "ready-to-download.html"
      [] state = "request" -> "rebuilding.html"

\* a transition that never makes the file ready
TransitionNoDownload(state) ==
    CASE state = "request" -> "rebuilding"
      [] state = "download" -> "new_data"
      [] OTHER -> state

\* GlobalState.transition
Transition(state) ==
    CASE state = "request" -> "rebuilding"
      [] state = "rebuilding" -> "download"
      [] state = "download" -> "new_data"
      [] OTHER -> state

\* REBUILD_POST_DATA, and a form with another value
BuildForm == "BuildFile=Build"
OtherForm == "BuildFile=Other"

\* The requests of the client: check_state and get_data_file use
\* session.get, request_rebuild uses session.put with REBUILD_POST_DATA.
ClientCheckState == [method |-> "GET", path |-> "/", data |-> ""]
ClientGetDataFile == [method |-> "GET", path |-> "/DATA.TSV", data |-> ""]
ClientRequestRebuild == [method |-> "PUT", path |-> "/", data |-> BuildForm]

\* The requests served: those of the client and the form posted to '/'.
Requests ==
    {ClientCheckState, ClientGetDataFile, ClientRequestRebuild,
     [method |-> "POST", path |-> "/", data |-> BuildForm],
     [method |-> "POST", path |-> "/", data |-> OtherForm]}

\* app.add_routes: a method that no route of the path takes is answered
\* with 405 Method Not Allowed and reaches no handler.
Route(req) ==
    CASE req.method = "GET" /\ req.path = "/DATA.TSV" -> "handle_data"
      [] req.method = "GET" /\ req.path = "/" -> "handle_main"
      [] req.method = "POST" /\ req.path = "/" -> "handle_rebuild"
      [] OTHER -> "405"

SimInit ==
    /\ pc = "serve"
    /\ sim_state = "new_data"
    /\ sim_req = <<>>
    /\ sim_resp = <<>>
    /\ period_text = <<>>
    /\ seconds = 0
    /\ call_pc = <<>>
    /\ call_key = <<>>
    /\ lock_ctx = <<>>
    /\ html = <<>>
    /\ post_row = <<>>
    /\ field_i = 1
    /\ writes = <<>>
    /\ summary = 0
    /\ metadata = <<>>
    /\ pv_values = <<>>
    /\ TickUnused

sim_frame == <<tick_vars, pc, html, post_row, field_i, writes, summary,
               metadata, pv_values, period_text, seconds, call_pc, call_key,
               lock_ctx>>

\* The state that get_state_information reads from each page served
\* (test_get_information).
PageState(page) ==
    CASE page = "new_data.html" -> "new_data"
      [] page = "rebuilding.html" -> "rebuilding"
      [] page = "ready-to-download.html" -> "download"
      [] OTHER -> "unknown"

\* handle_data: GlobalState.reset, answered with the sample data file
HandleData(req) ==
    /\ pc = "serve"
    /\ Len(sim_req) < MaxServed
    /\ Route(req) = "handle_data"
    /\ sim_req' = Append(sim_req, req)
    /\ sim_state' = "new_data"
    /\ sim_resp' = Append(sim_resp, "sample_data.tsv")
    /\ UNCHANGED sim_frame

\* handle_main: the page of the state, then GlobalState.transition
HandleMain(req) ==
    /\ pc = "serve"
    /\ Len(sim_req) < MaxServed
    /\ Route(req) = "handle_main"
    /\ sim_req' = Append(sim_req, req)
    /\ sim_resp' = Append(sim_resp, StateToHtml(sim_state))
    /\ sim_state' = Transition(sim_state)
    /\ UNCHANGED sim_frame

\* handle_rebuild: with BuildFile=Build the state becomes 'request', its
\* page is read and the state moves on; otherwise the page of the state.
HandleRebuild(req) ==
    /\ pc = "serve"
    /\ Len(sim_req) < MaxServed
    /\ Route(req) = "handle_rebuild"
    /\ sim_req' = Append(sim_req, req)
    /\ IF req.data = BuildForm
       THEN /\ sim_resp' = Append(sim_resp, StateToHtml("request"))
            /\ sim_state' = Transition("request")
       ELSE /\ sim_resp' = Append(sim_resp, StateToHtml(sim_state))
            /\ UNCHANGED sim_state
    /\ UNCHANGED sim_frame

\* a request that no route takes reaches no handler
NotAllowed(req) ==
    /\ pc = "serve"
    /\ Len(sim_req) < MaxServed
    /\ Route(req) = "405"
    /\ sim_req' = Append(sim_req, req)
    /\ sim_resp' = Append(sim_resp, "405")
    /\ UNCHANGED <<sim_state, sim_frame>>

SimNext ==
    \E req \in Requests :
        \/ HandleData(req)
        \/ HandleMain(req)
        \/ HandleRebuild(req)
        \/ NotAllowed(req)

SimSpec == SimInit /\ [][SimNext]_vars

\* --------------------------------------------------- util.block_on_reentry
\* the objects whose handlers are decorated, each with its own _context
Instances == {1, 2}

\* the decorated handlers: the token given to the decorator ("None" when
\* left out) and the name of the wrapped method
Handlers ==
    {[token |-> "None", name |-> "f"], [token |-> "None", name |-> "g"],
     [token |-> "t", name |-> "f"], [token |-> "t", name |-> "g"]}

\* key = token or func.__name__
Key(h) == IF h.token = "None" THEN h.name ELSE h.token

\* Lock(): not held, nobody waiting
NewLock == [holder |-> 0, waiters |-> <<>>]

\* an acquire that never waits
LockFreeAlways(lock) == TRUE

\* Lock.acquire returns at once only if the lock is not held and no
\* earlier caller is waiting for it
LockFree(lock) == lock.holder = 0 /\ lock.waiters = <<>>

LockInit ==
    /\ pc = "calls"
    /\ call_pc = <<>>
    /\ call_key = <<>>
    /\ lock_ctx = <<>>
    /\ period_text = <<>>
    /\ seconds = 0
    /\ sim_state = "new_data"
    /\ sim_req = <<>>
    /\ sim_resp = <<>>
    /\ html = <<>>
    /\ post_row = <<>>
    /\ field_i = 1
    /\ writes = <<>>
    /\ summary = 0
    /\ metadata = <<>>
    /\ pv_values = <<>>
    /\ TickUnused

lock_frame == <<tick_vars, pc, html, post_row, field_i, writes, summary,
                metadata, pv_values, period_text, seconds, sim_state, sim_req,
                sim_resp>>

\* wrapped, up to its first suspension: the key, the lock made on first
\* use, and the acquire of `async with lock`, which either takes the lock
\* and enters the body or queues the call behind the lock.
BlockCall(inst, h) ==
    /\ pc = "calls"
    /\ Len(call_pc) < MaxCalls
    /\ LET key == Key(h)
           p == <<inst, key>>
           c == Len(call_pc) + 1
           ctx == IF p \in DOMAIN lock_ctx
                  THEN lock_ctx
                  ELSE (p :> NewLock) @@ lock_ctx
       IN  /\ call_key' = Append(call_key, [inst |-> inst, key |-> key])
           /\ IF LockFree(ctx[p])
              THEN /\ call_pc' = Append(call_pc, "body")
                   /\ lock_ctx' = [ctx EXCEPT ![p].holder = c]
              ELSE /\ call_pc' = Append(call_pc, "wait")
                   /\ lock_ctx' =
                          [ctx EXCEPT ![p].waiters = Append(@, c)]
    /\ UNCHANGED lock_frame

\* The wrapped body ends, by return or by exception: leaving `async with`
\* releases the lock either way.
BodyEnds(c, raised) ==
    /\ pc = "calls"
    /\ c \in 1..Len(call_pc)
    /\ call_pc[c] = "body"
    /\ call_pc' = [call_pc EXCEPT ![c] = IF raised THEN "raised" ELSE "returned"]
    /\ lock_ctx' = [lock_ctx EXCEPT
                       ![<<call_key[c].inst, call_key[c].key>>].holder = 0]
    /\ UNCHANGED <<call_key, lock_frame>>

\* The caller that waited longest for a released lock takes it and
\* enters the body.
WakeUp(c) ==
    /\ pc = "calls"
    /\ c \in 1..Len(call_pc)
    /\ call_pc[c] = "wait"
    /\ LET p == <<call_key[c].inst, call_key[c].key>>
       IN  /\ lock_ctx[p].holder = 0
           /\ Head(lock_ctx[p].waiters) = c
           /\ lock_ctx' = [lock_ctx EXCEPT ![p].holder = c,
                                           ![p].waiters = Tail(@)]
    /\ call_pc' = [call_pc EXCEPT ![c] = "body"]
    /\ UNCHANGED <<call_key, lock_frame>>

LockNext ==
    \/ \E inst \in Instances, h \in Handlers : BlockCall(inst, h)
    \/ \E c \in 1..MaxCalls, raised \in BOOLEAN : BodyEnds(c, raised)
    \/ \E c \in 1..MaxCalls : WakeUp(c)

\* Every body ends and the event loop resumes a woken caller.
LockSpec ==
    /\ LockInit
    /\ [][LockNext]_vars
    /\ WF_vars(\E c \in 1..MaxCalls, raised \in BOOLEAN : BodyEnds(c, raised))
    /\ WF_vars(\E c \in 1..MaxCalls : WakeUp(c))

\* ---------------------------------------------------------------- fairness
\* The steps that happen without the device: the scan loop's sleep ends, the
\* body runs on, and asyncio.wait_for raises TimeoutError on the two calls it
\* wraps (comm.check_state after RequestTimeout, comm.get_data_file after
\* DataTimeout).  comm.request_rebuild is awaited without wait_for and its
\* ClientSession is built without a timeout argument, so neither of its
\* outcomes is among them.
Progress ==
    \/ ScanFire
    \/ CheckStateFail
    \/ Decide
    \/ DownloadFail
    \/ FindNewRowsStep
    \/ SortStep
    \/ PostNewRow
    \/ WriteLastTimestamp
    \/ WriteSyncRecords
    \/ UpdateFailed
    \/ UpdateDone

FairSpec == Spec /\ WF_vars(Progress)

\* ------------------------------------- the client against a working device
\* The device follows the cycle of GlobalState, accepts the rebuild request
\* whatever its HTTP method, and no call fails or times out.

\* The record counts the device may show: more than NumRecords while the
\* bound allows it.
DeviceCounts(sync) ==
    IF \E n \in 1..MaxRecords : n > sync
    THEN {n \in 1..MaxRecords : n > sync}
    ELSE {MaxRecords}

sync_frame == <<html, post_row, field_i, writes, summary, metadata, pv_values,
                period_text, seconds, sim_req, sim_resp, call_pc, call_key,
                lock_ctx, in_flight, alarms>>

\* _update_server_state up to the rebuild decision, with the status page
\* of the device, which then moves on as handle_main does.
SyncCheckState(n) ==
    /\ pc = "idle"
    /\ LET info == [state |-> PageState(StateToHtml(sim_state)), records |-> n]
       IN  /\ state_info' = info
           /\ available_records' = NextAvailableRecords(info, available_records)
           /\ server_state' = NextServerState(info, server_state)
           /\ pc' = IF ShouldRebuild(info.state, available_records', sync_records)
                    THEN "rebuild" ELSE "decide"
    /\ sim_state' = Transition(sim_state)
    /\ UNCHANGED <<last_timestamp, sync_records, df, items, new_rows, i,
                   posted, sent, last_pc, tick_start, sync_frame>>

\* comm.request_rebuild answered by a device that takes the request as
\* handle_rebuild does.
SyncRequestRebuild ==
    /\ pc = "rebuild"
    /\ rebuild_sent' = TRUE
    /\ pc' = "decide"
    /\ sim_state' = Transition("request")
    /\ UNCHANGED <<pvs, tick_locals, download_sent, last_pc, tick_start,
                   sync_frame>>

\* _download_data_file returned the export, which has as many rows as
\* the status page showed; the device resets as handle_data does.
SyncDownload(table) ==
    /\ pc = "download"
    /\ Len(table) = available_records
    /\ download_sent' = TRUE
    /\ df' = table
    /\ pc' = "diff"
    /\ sim_state' = "new_data"
    /\ UNCHANGED <<pvs, state_info, items, new_rows, i, posted,
                   rebuild_sent, last_pc, tick_start, sync_frame>>

SyncNext ==
    \/ ScanFire
    \/ \E n \in DeviceCounts(sync_records) : SyncCheckState(n)
    \/ SyncRequestRebuild
    \/ Decide
    \/ \E table \in TickTables : SyncDownload(table)
    \/ FindNewRowsStep
    \/ SortStep
    \/ PostNewRow
    \/ WriteLastTimestamp
    \/ WriteSyncRecords
    \/ UpdateFailed
    \/ UpdateDone

\* Every call is answered and every step of the tick is taken.
SyncSpec == Init /\ [][SyncNext]_vars /\ WF_vars(SyncNext)

TypeOK ==
    /\ last_timestamp \in {0} \cup TimeStamps
    /\ sync_records \in 0..MaxLen
    /\ available_records \in 0..MaxRecords
    /\ server_state \in States
    /\ in_flight \in 0..1
    /\ alarms \in [AlarmGroups -> {NoAlarm, CommAlarm, ReadAlarm, UdfAlarm}]
    /\ html \in Htmls
    /\ pc \in {"parse", "parsed", "summarize_alarms", "summarized",
               "summarize", "fields", "period", "posted", "post_raised",
               "metadata", "sample_period", "sample_period_done",
               "sample_period_raised", "serve", "calls", "sleep", "idle", "rebuild", "decide", "download", "diff", "sort", "publish",
               "stamp", "failed", "done"}
    /\ state_info \in StateInfos
    /\ df \in Tables
    /\ i \in 1..(MaxLen + 1)

\* ================================================================== claims
\* The tick has evaluated _find_new_rows on df.
Diffed ==
    \/ pc \in {"sort", "publish", "stamp"}
    \/ pc \in {"done", "failed"} /\ last_pc \in {"sort", "publish"}

\* C1: LastTimestamp never decreases: every step leaves it greater than or
\* equal to the value it held before.
C1_NeverDecreases == [][last_timestamp' >= last_timestamp]_vars

\* C2: a tick that ends in the except clause, wherever the exception was
\* raised, ends with LastTimestamp and NumRecords as they were when the tick
\* began.
C2_FailedTickKeepsWatermark ==
    pc = "failed" => last_timestamp = tick_lt /\ sync_records = tick_nr

\* C3: a tick that ends before the publish phase (status query, rebuild
\* command or download failed, or _should_download was false) ends with
\* LastTimestamp and NumRecords as they were when the tick began.
C3_OnlyPublishWrites ==
    (pc \in {"done", "failed"}
        /\ last_pc \in {"idle", "rebuild", "decide", "download"})
    => last_timestamp = tick_lt /\ sync_records = tick_nr

C3_Witness ==
    /\ pc = "failed"
    /\ last_pc = "download"
    /\ tick_lt > 0
    /\ tick_nr > 0

\* C4: with LastTimestamp < 1e-6, whatever NumRecords is, _find_new_rows
\* returns exactly the last row of the table, which is its most recent one
\* (and nothing for a table without rows).
C4_ColdStartLastRow ==
    (Diffed /\ tick_lt < Epsilon)
    => IF df = <<>> THEN items = <<>>
       ELSE /\ items = <<df[Len(df)]>>
            /\ \A k \in DOMAIN df : df[k].ts <= items[1].ts

C4_Witness ==
    /\ Diffed
    /\ tick_lt < Epsilon
    /\ tick_nr > 0
    /\ Len(df) >= 2
    /\ df[1] # df[Len(df)]
    /\ Len(items) = 1

\* C5: with LastTimestamp = t0 >= 1e-6, _find_new_rows returns exactly the
\* rows with timestamp >= t0 + 0.1 s whenever there is such a row or
\* NumRecords # 0; when there is none and NumRecords # 0, no row is posted
\* and LastTimestamp stays t0.
C5_RowsFromCutoff ==
    (Diffed /\ tick_lt >= Epsilon)
    => LET newer == SelectSeq(df, LAMBDA r : r.ts >= tick_lt + Margin)
       IN  /\ (newer # <<>> \/ tick_nr # 0) => items = newer
           /\ (newer = <<>> /\ tick_nr # 0)
              => posted = <<>> /\ last_timestamp = tick_lt

C5_Witness ==
    /\ Diffed
    /\ tick_lt >= Epsilon
    /\ Len(items) >= 2
    /\ Len(items) < Len(df)
    /\ items[1].ts = tick_lt + Margin

\* C6: with LastTimestamp >= 1e-6, no row at or after LastTimestamp + 0.1 s
\* and NumRecords = 0, _find_new_rows returns exactly the last row of the
\* table.
C6_RebootFallback ==
    (/\ Diffed
     /\ tick_lt >= Epsilon
     /\ tick_nr = 0
     /\ \A k \in DOMAIN df : df[k].ts < tick_lt + Margin)
    => IF df = <<>> THEN items = <<>> ELSE items = <<df[Len(df)]>>

C6_Witness ==
    /\ Diffed
    /\ tick_lt >= Epsilon
    /\ tick_nr = 0
    /\ Len(df) >= 2
    /\ \A k \in DOMAIN df : df[k].ts < tick_lt + Margin
    /\ Len(items) = 1

\* C7: once _download_and_update has completed on a table, _find_new_rows on
\* the same table with the watermark it left selects no row.
C7_DiffIdempotent ==
    (pc = "done" /\ last_pc = "publish")
    => FindNewRows(df, last_timestamp, sync_records) = <<>>

C7_Witness ==
    /\ pc = "done"
    /\ last_pc = "publish"
    /\ Len(posted) >= 2
    /\ last_timestamp > tick_lt

\* C8: the selected rows are handed to _post_new_row in ascending timestamp
\* order, equal timestamps included, so that a download in which no
\* _post_new_row call raises has posted exactly the selected rows in their
\* order; and LastTimestamp holds row i's timestamp when row i+1 is about to
\* be posted.
C8_PostedInOrder ==
    /\ (/\ pc \in {"done", "failed"}
        /\ Diffed
        /\ \A k \in DOMAIN items : ~PostRaises(items[k]))
       => posted = items
    /\ \A k \in 1..(Len(posted) - 1) : posted[k].ts <= posted[k + 1].ts
    /\ (pc = "publish" /\ posted # <<>>)
       => last_timestamp = posted[Len(posted)].ts

\* C9: every write of LastTimestamp writes the timestamp of a row of the
\* downloaded table that _post_new_row was called with before the write.
C9_OnlyPostedTimestamps ==
    [][last_timestamp' # last_timestamp
       => \E k \in DOMAIN posted :
            /\ posted[k].ts = last_timestamp'
            /\ \E j \in DOMAIN df : df[j] = posted[k]]_vars

C9_Witness ==
    /\ pc = "publish"
    /\ i <= Len(new_rows)
    /\ Len(posted) >= 1
    /\ last_timestamp # tick_lt
    /\ last_timestamp = posted[Len(posted)].ts

\* C10 as stated: a tick whose status page classifies as new_data issues a
\* rebuild request and does not download, whatever AvailableRecords and
\* NumRecords are.
C10_AlwaysRebuilds ==
    (pc = "done" /\ state_info.state = "new_data")
    => rebuild_sent /\ ~download_sent

\* C10 amended: a tick whose status page classifies as new_data does not
\* download, and it issues a rebuild request exactly when AvailableRecords
\* (updated from the page when the page carries a count) is greater than
\* NumRecords.
C10_RebuildsIfNewRecords ==
    (pc \in {"done", "failed"} /\ state_info.state = "new_data")
    => /\ ~download_sent
       /\ rebuild_sent <=> available_records > sync_records

C10_Witness ==
    /\ pc = "done"
    /\ state_info.state = "new_data"
    /\ state_info.records = NoRecords
    /\ rebuild_sent
    /\ ~download_sent

\* C11: comm.get_data_file is called in a tick only if the status page read
\* in that tick classified as 'download'; a tick that observed new_data,
\* rebuilding or unknown does not download.
C11_DownloadOnlyWhenReady ==
    download_sent => state_info.state = "download"

C11_Witness ==
    /\ download_sent
    /\ pc = "diff"
    /\ state_info.state = "download"

C14_AllChannelsComm ==
    [][(pc = "failed" /\ pc' = "sleep")
       => \A g \in AlarmGroups : alarms'[g] = CommAlarm]_vars

\* C14 amended: the except clause of update_hook forces the alarm of every
\* named alarm group to COMM / MAJOR_ALARM and leaves the alarm of the
\* channels without alarm_group as it was.
C14_NamedGroupsComm ==
    [][(pc = "failed" /\ pc' = "sleep")
       => /\ \A g \in NamedAlarmGroups : alarms'[g] = CommAlarm
          /\ alarms'[NoAlarmGroup] = alarms[NoAlarmGroup]]_vars

C14_Witness ==
    /\ pc = "sleep"
    /\ \A g \in NamedAlarmGroups : alarms[g] = CommAlarm
    /\ alarms[NoAlarmGroup] = NoAlarm

\* C15: a failure on a single field of a row does not abort the row:
\* _post_new_row returns normally, LastTimestamp advances to the row's
\* timestamp and the following selected rows are published, so a tick that
\* reached the publish loop ends normally with every selected row posted.
C15_FieldFailureKeepsRow ==
    (pc \in {"done", "failed"} /\ last_pc = "publish")
    => /\ pc = "done"
       /\ posted = new_rows
       /\ posted # <<>> => last_timestamp = posted[Len(posted)].ts

\* C17 as stated: a tick that sends a rebuild request or downloads has read a
\* record count from the status page of that tick.
C17_DecisionUsesFreshCount ==
    (rebuild_sent \/ download_sent) => state_info.records # NoRecords

\* C17 amended: the record count a tick decides with is the value of
\* AvailableRecords after the status query: the count of this tick's page
\* if it carries one, otherwise the count kept from an earlier tick.
C17_DecisionUsesChannelCount ==
    [][/\ (pc = "idle" /\ pc' \in {"rebuild", "decide"})
          => LET used == IF state_info'.records # NoRecords
                         THEN state_info'.records
                         ELSE available_records
             IN  /\ available_records' = used
                 /\ pc' = "rebuild"
                    <=> (state_info'.state = "new_data"
                         /\ used > sync_records)
       /\ (pc = "decide" /\ pc' = "download")
          => available_records > sync_records]_vars

C17_Witness ==
    /\ pc = "rebuild"
    /\ state_info.records = NoRecords
    /\ available_records > 0

\* C16: get_state_information classifies every text by the first of the
\* markers of new_data, rebuilding, download (in this priority) that occurs
\* in it, returns 'unknown' when none occurs, always returns, and carries
\* the 'records' key exactly when the record-count pattern matches.
C16_Classification ==
    pc = "parsed"
    => LET priority == <<"new_data", "rebuilding", "download">>
           marker == <<"New data available.", "Building Data file",
                       "Click link above to download">>
           hits == {j \in 1..3 : \E x \in DOMAIN html :
                                    html[x].kind = marker[j]}
       IN  /\ state_info \in StateInfos
           /\ hits = {} => state_info.state = "unknown"
           /\ \A j \in hits :
                 (\A j2 \in hits : j <= j2) => state_info.state = priority[j]
           /\ state_info.records # NoRecords
              <=> \E a, b \in DOMAIN html :
                    /\ a < b
                    /\ html[a].kind = "DATA.TSV"
                    /\ html[b].kind = CountCell
                    /\ \A x \in DOMAIN html :
                          (a < x /\ x < b) => html[x].kind # "\n"

C16_Witness ==
    /\ pc = "parsed"
    /\ Len(html) = 3
    /\ html[1].kind = "Click link above to download"
    /\ html[2].kind = "New data available."
    /\ html[3].kind = CountCell
    /\ state_info = [state |-> "new_data", records |-> NoRecords]

\* C20: summarize_alarms returns the maximum of the seven alarm fields of
\* the row for every combination of non-negative values, so it returns 0
\* exactly when all seven are 0.
C20_MaxOfSeven ==
    pc = "summarized"
    => /\ \A key \in AlarmKeySet : post_row[key].n <= summary
       /\ \E key \in AlarmKeySet : post_row[key].n = summary
       /\ summary = 0 <=> \A key \in AlarmKeySet : post_row[key].n = 0

C20_Witness ==
    /\ pc = "summarized"
    /\ summary = MaxAlarm
    /\ post_row["Laser Alarm"].n = MaxAlarm
    /\ \A key \in AlarmKeySet \ {"Laser Alarm"} : post_row[key].n = 0

\* C18: for every mapped field of a row whose raw value is NaN,
\* _post_new_row makes exactly one write on that channel, a quality-only
\* write with status UDF and severity NO_ALARM, and the channel keeps the
\* value it had.
C18_NanWritesQualityOnly ==
    pc \in {"period", "posted", "post_raised"}
    => \A key \in MappedKeys :
         post_row[key].kind = "nan"
         => LET chan == DataKeyToProperty[key]
                on_chan == SelectSeq(writes, LAMBDA w : w.chan = chan)
            IN  /\ Len(on_chan) = 1
                /\ on_chan[1].op = "write_metadata"
                /\ on_chan[1].alarm = UdfAlarm
                /\ pv_values[chan] = InitialValue(chan)

C18_Witness ==
    /\ pc = "posted"
    /\ post_row["Sample Volume"].kind = "nan"
    /\ post_row["Count Mode"].kind = "nan"
    /\ post_row["Laser Alarm"].kind = "nan"
    /\ post_row["Cal Alarm"] = Num(1)
    /\ \E j \in DOMAIN writes :
          writes[j].chan = "cal_alarm" /\ writes[j].alarm = ReadAlarm

\* C19: for each of the five metadata channels on each download, if the
\* new value cut to the first max_length characters equals the channel's
\* value no write happens; otherwise exactly one write happens and it
\* carries the cut value.
C19_MetadataWrittenIfChanged ==
    [][(pc = "metadata" /\ field_i' # field_i)
       => LET chan == MetadataToProperty[field_i]
              new == metadata'
              cut == [j \in 1..(IF Len(new) < MaxLength THEN Len(new)
                                ELSE MaxLength) |-> new[j]]
          IN  IF cut = pv_values[chan]
              THEN writes' = <<>> /\ pv_values' = pv_values
              ELSE /\ writes' = <<[chan |-> chan, value |-> cut]>>
                   /\ pv_values' = [pv_values EXCEPT ![chan] = cut]]_vars

C19_Witness ==
    /\ pc = "metadata"
    /\ field_i = 2
    /\ Len(metadata) = MaxLength + 1
    /\ writes = <<>>
    /\ Len(pv_values["model_number"]) = MaxLength
    /\ pv_values["bootloader_version"] = Unknown

\* C21: all value writes of mapped fields of one row carry the same
\* (status, severity) pair: NO_ALARM only when the overall alarm was
\* computed as 0 and published, and MAJOR_ALARM when it is not 0, when an
\* alarm column could not be read or when the overall alarm could not be
\* published.
C21_SharedRowStatus ==
    pc \in {"fields", "period", "posted", "post_raised"}
    => LET published == \E j \in DOMAIN writes :
                            writes[j].chan = "overall_alarm"
           readable == \A key \in AlarmKeySet :
                           post_row[key].kind \in {"num", "nan"}
           all_zero == \A key \in AlarmKeySet :
                           post_row[key].kind = "num" => post_row[key].n = 0
           expected == IF published /\ readable /\ all_zero
                       THEN NoAlarm ELSE ReadAlarm
       IN  \A j \in DOMAIN writes :
             (writes[j].op = "write"
                /\ writes[j].chan \notin {"overall_alarm", "sample_period"})
             => writes[j].alarm = expected

C21_Witness ==
    /\ pc = "posted"
    /\ post_row["Cal Alarm"].kind = "absent"
    /\ post_row["Laser Alarm"] = Num(0)
    /\ \E j \in DOMAIN writes :
          writes[j].chan = "sample_volume" /\ writes[j].alarm = ReadAlarm
    /\ \E j \in DOMAIN writes :
          writes[j].chan = "laser_alarm" /\ writes[j].alarm = ReadAlarm

\* C22: sample_period_to_seconds maps every text HH:MM:SS to
\* 3600 * HH + 60 * MM + SS; '01:02:03' gives 3723.
C22_SecondsOfPeriod ==
    pc # "sample_period"
    => LET d(j) == DigitValue(period_text[j])
       IN  /\ pc = "sample_period_done"
           /\ seconds = 3600 * (10 * d(1) + d(2))
                         + 60 * (10 * d(4) + d(5))
                         + (10 * d(7) + d(8))

C22_Witness ==
    /\ pc = "sample_period_done"
    /\ period_text = <<"0", "1", ":", "0", "2", ":", "0", "3">>
    /\ seconds = 3723

\* C23: NumRecords is written only at the end of a download whose selected
\* rows have all been processed, with the number of rows of the downloaded
\* table; a tick that ends in the except clause leaves NumRecords as it was
\* when the tick began.
C23_NumRecordsAtEnd ==
    [][/\ sync_records' # sync_records => (pc = "publish" /\ pc' = "done")
       /\ (pc = "publish" /\ pc' = "done")
          => /\ posted = new_rows
             /\ sync_records' = Len(df)
       /\ pc' = "failed" => sync_records' = tick_nr]_vars

C23_Witness ==
    /\ pc = "done"
    /\ last_pc = "publish"
    /\ Len(posted) = 1
    /\ Len(df) = 2
    /\ sync_records = 2
    /\ tick_nr # 2

\* C27: no tick issues both a rebuild request and an export download, and a
\* tick issues at most one of each: when either is issued, neither has been
\* issued before in the tick.
C27_AtMostOneCommand ==
    [][((pc = "rebuild" /\ pc' # "rebuild")
          \/ (pc = "download" /\ pc' # "download"))
       => ~rebuild_sent /\ ~download_sent]_vars

C27_Witness ==
    /\ pc = "decide"
    /\ rebuild_sent
    /\ server_state = "new_data"
    /\ available_records > sync_records

\* C28: a rebuild request or an export download is issued only while
\* AvailableRecords > NumRecords, so a tick that finds AvailableRecords <=
\* NumRecords, as after a completed download of a table with at least as
\* many rows as the reported count, sends no command.
C28_CommandsNeedNewRecords ==
    /\ [][((pc = "rebuild" /\ pc' # "rebuild")
            \/ (pc = "download" /\ pc' # "download"))
          => available_records > sync_records]_vars
    /\ []((available_records <= sync_records /\ sync_records = tick_nr)
          => ~rebuild_sent /\ ~download_sent)

C28_Witness ==
    /\ pc = "done"
    /\ last_pc = "decide"
    /\ tick_nr > 0
    /\ available_records > 0
    /\ available_records <= tick_nr
    /\ state_info.state = "download"
    /\ ~download_sent

\* C29: every alarm group forced to COMM / MAJOR_ALARM by a failed tick is
\* back to another status after a later tick that completes without
\* exception and publishes a row.
C29_AlarmsRecover ==
    (pc = "done" /\ last_pc = "publish" /\ posted # <<>>)
    => \A g \in NamedAlarmGroups : alarms[g] # CommAlarm

\* C24: the simulated device follows the export cycle: a rebuild request
\* with BuildFile=Build is answered with a page that reads 'rebuilding', a
\* status read after it reads 'rebuilding' and the one after that
\* 'download', an export download resets the state to 'new_data', and
\* status reads leave 'new_data' as it is.
C24_SimExportCycle ==
    [][Len(sim_req') = Len(sim_req) + 1
       => LET req == sim_req'[Len(sim_req')]
              resp == sim_resp'[Len(sim_resp')]
          IN  /\ (req.method = "POST" /\ req.data = "BuildFile=Build")
                 => PageState(resp) = "rebuilding" /\ sim_state' = "rebuilding"
              /\ (req = ClientCheckState /\ sim_state = "rebuilding")
                 => PageState(resp) = "rebuilding" /\ sim_state' = "download"
              /\ (req = ClientCheckState /\ sim_state = "download")
                 => PageState(resp) = "download"
              /\ req = ClientGetDataFile
                 => resp = "sample_data.tsv" /\ sim_state' = "new_data"
              /\ (req = ClientCheckState /\ sim_state = "new_data")
                 => PageState(resp) = "new_data" /\ sim_state' = "new_data"]_vars

C24_Witness ==
    /\ Len(sim_req) = 4
    /\ sim_req[1].method = "POST"
    /\ sim_resp = <<"rebuilding.html", "rebuilding.html",
                    "ready-to-download.html", "sample_data.tsv">>
    /\ sim_state = "new_data"

\* C25: the rebuild request as comm.request_rebuild issues it reaches the
\* rebuild handler of the simulator and moves the simulated device out of
\* 'new_data'.
C25_ClientRebuildRouted ==
    [][(/\ Len(sim_req') = Len(sim_req) + 1
        /\ sim_req'[Len(sim_req')] = ClientRequestRebuild)
       => /\ PageState(sim_resp'[Len(sim_resp')]) = "rebuilding"
          /\ sim_state' # "new_data"]_vars

\* C30: of the calls of handlers decorated with block_on_reentry, at most
\* one per instance and key is in the wrapped body; a call waits in the
\* queue of the lock of its own instance and key, which is held, if at
\* all, by a call of that instance and key in the body; a body that ends, by return or by exception, frees the
\* lock; a call whose instance and key no other call shares enters the
\* body at once; and every waiting call enters the body in the end.
C30_OneBodyPerKey ==
    /\ [](\A c1, c2 \in 1..Len(call_pc) :
            (c1 # c2 /\ call_pc[c1] = "body" /\ call_pc[c2] = "body")
            => call_key[c1] # call_key[c2])
    /\ [](\A c \in 1..Len(call_pc) :
            call_pc[c] = "wait"
            => LET lock == lock_ctx[<<call_key[c].inst, call_key[c].key>>]
               IN  /\ \E k \in 1..Len(lock.waiters) : lock.waiters[k] = c
                   /\ lock.holder # 0
                      => /\ call_pc[lock.holder] = "body"
                         /\ call_key[lock.holder] = call_key[c])
    /\ [][\A c \in 1..Len(call_pc) :
            (call_pc[c] = "body" /\ call_pc'[c] \in {"returned", "raised"})
            => lock_ctx'[<<call_key[c].inst, call_key[c].key>>].holder = 0]_vars
    /\ [][(/\ Len(call_pc') = Len(call_pc) + 1
           /\ \A d \in 1..Len(call_pc) :
                 call_key[d] = call_key'[Len(call_pc')]
                 => call_pc[d] \in {"returned", "raised"})
          => call_pc'[Len(call_pc')] = "body"]_vars
    /\ \A c \in 1..MaxCalls :
          (Len(call_pc) >= c /\ call_pc[c] = "wait")
          ~> (Len(call_pc) >= c /\ call_pc[c] = "body")

C30_Witness ==
    /\ Len(call_pc) = 3
    /\ call_pc = <<"raised", "body", "body">>
    /\ call_key[1] = call_key[2]
    /\ call_key[3].inst = call_key[1].inst
    /\ call_key[3].key # call_key[1].key

\* C26: against a device that follows the export cycle, accepts rebuild
\* requests and shows a record count greater than NumRecords, with no
\* call failing, a tick eventually downloads the export, publishes the
\* selected rows and writes the row count of the table to NumRecords.
C26_EventuallySynchronized ==
    <>(/\ pc = "done"
       /\ last_pc = "publish"
       /\ download_sent
       /\ posted = new_rows
       /\ sync_records = Len(df))
====
